---- MODULE Spec2Model ----
(***************************************************************************)
(* Model of the comm_service_rep repeater (src/src/main.rs).               *)
(*                                                                         *)
(* Three kinds of threads:                                                 *)
(*   - the controller (main thread, fn run / fn main),                     *)
(*   - the worker (the closure of thread::spawn at line 73), which loops   *)
(*     over iter::repeat(()).any(|_| ...),                                 *)
(*   - one detached HTTP client thread per tick (thread::spawn, line 105). *)
(* They share sync_pair = (Mutex<bool>, Condvar).                          *)
(***************************************************************************)
EXTENDS Integers, FiniteSets, Sequences, TLC

\* Bound on the number of ticks (detached HTTP threads) of one run.
MaxTicks == 2

Ticks == 1..MaxTicks

VARIABLES
    stopped,        \* the bool inside the Mutex (sync_pair.0)
    poisoned,       \* the Mutex's poison flag
    holder,         \* who holds the Mutex: "none", "worker", "ctrl"
    wpc,            \* worker position
    cause,          \* why the current/last wait_timeout woke up
    res,            \* result of match_fn(): "none", "true", "false", "err"
    cpc,            \* controller position
    exitCode,       \* process exit code, -1 while the process is alive
    nSpawn,         \* number of HTTP client threads spawned so far
    dstate,         \* per tick: "none", "running", "done"
    outcome,        \* per tick: the line the HTTP thread printed
    config,         \* MainConfig: name, regex_pattern, cmd (never written)
    payload,        \* per tick: the JSON body its HTTP thread posts
    sendRes,        \* per tick: what Client::new / send returned
    stopCalls,      \* how many times the stop sequence was started
    \* history variables (observations, never read by the actions' guards)
    tickCause,      \* per tick: the wake cause of the wait that led to it
    tickAfterStop,  \* per tick: was the flag already set when it was spawned
    tickFlag,       \* per tick: the flag's value when its wait returned
    flagAtReturn,   \* value of the flag when the last wait returned
    retCause,       \* wake cause of the last wait that returned
    beganStopped,   \* a timed wait was begun while the flag was already true
    lostNotify,     \* notify_one was called while the worker was not waiting
    sawStop,        \* match_fn has returned Ok(true)
    waitsAfterStop, \* waits that returned after the flag was set
    coordFailed,    \* match_fn has returned Err
    notified,       \* the controller has called notify_one
    joinErr,        \* child.join() returned Err
    errKind,        \* which error run() returned: "none", "read", "lock"
    nFalse,         \* number of times match_fn returned Ok(false)
    printed,        \* per tick: number of outcome lines its thread printed
    firedBeforeStop \* an interval elapsed while the flag was still false

vars == <<stopped, poisoned, holder, wpc, cause, res, cpc, exitCode, nSpawn,
          dstate, outcome, tickCause, tickAfterStop, tickFlag, flagAtReturn,
          retCause, beganStopped, lostNotify, sawStop, waitsAfterStop,
          coordFailed, notified, joinErr, errKind, config, payload, sendRes,
          stopCalls, nFalse, printed, firedBeforeStop>>

\* The variables added to the core of the model: configuration, requests,
\* and further observations.
ext == <<config, payload, sendRes, stopCalls, nFalse, printed,
         firedBeforeStop>>

hist == <<tickCause, tickAfterStop, tickFlag, flagAtReturn, retCause, beganStopped,
          lostNotify, sawStop, waitsAfterStop, coordFailed, notified,
          joinErr, errKind>>

\* The process is alive until process::exit.
Alive == cpc # "exited"

\* ---------------------------------------------------------------------
\* Configuration and the request body (ExecReq, lines 30-36, 99-113).
\* ---------------------------------------------------------------------

\* Regex::new keeps the pattern text it was built from.
RegexNew(text) == [original |-> text, compiled |-> TRUE]

\* The MainConfig values a run is checked with (-n, -r, -c).
Configs ==
    { [name |-> "caller", regex_pattern |-> RegexNew(".+"), cmd |-> "echo hi"],
      [name |-> "n2",     regex_pattern |-> RegexNew("^a$"), cmd |-> "ls"] }

\* config.regex_pattern.to_string(): Display of a Regex is its pattern text.
RegexToString(re) == re.original

\* The field names of struct ExecReq, letter by letter.
ExecReqFields ==
    [ id        |-> <<"i", "d">>,
      cmd_id_re |-> <<"c", "m", "d", "_", "i", "d", "_", "r", "e">>,
      cmd       |-> <<"c", "m", "d">> ]

Upper(c) == CASE c = "c" -> "C" [] c = "d" -> "D" [] c = "e" -> "E"
              [] c = "i" -> "I" [] c = "m" -> "M" [] c = "r" -> "R"
              [] OTHER -> c

RECURSIVE CamelFrom(_, _)
CamelFrom(word, up) ==
    IF word = <<>> THEN <<>>
    ELSE IF Head(word) = "_" THEN CamelFrom(Tail(word), TRUE)
    ELSE <<IF up THEN Upper(Head(word)) ELSE Head(word)>>
             \o CamelFrom(Tail(word), FALSE)

\* A variant that keeps the Rust field name.
CamelCaseKeep(word) == word

\* #[serde(rename_all = "camelCase")] applied to a snake_case field name.
CamelCase(word) == CamelFrom(word, FALSE)

\* A variant with the first two arguments exchanged.
ExecReqNewSwapped(id, cmd_id_re, cmd) ==
    [id |-> cmd_id_re, cmd_id_re |-> id, cmd |-> cmd]

\* #[derive(new)]: ExecReq::new(id, cmd_id_re, cmd)
ExecReqNew(id, cmd_id_re, cmd) ==
    [id |-> id, cmd_id_re |-> cmd_id_re, cmd |-> cmd]

\* .json(&req): the JSON object as the set of its <<key, value>> members.
ToJson(req) ==
    { <<CamelCase(ExecReqFields[f]), req[f]>> : f \in DOMAIN ExecReqFields }

\* The body posted for one tick: the clones of lines 99-102 handed to
\* ExecReq::new at line 113.
TickPayload(c) ==
    ToJson(ExecReqNew(c.name, RegexToString(c.regex_pattern), c.cmd))

\* ---------------------------------------------------------------------
\* HTTP client thread: the possible results of one send, and client_fn.
\* ---------------------------------------------------------------------
ClientErr(c)    == [kind |-> "client_err", status |-> 0, body |-> "none", cause |-> c]
SendErr(c)      == [kind |-> "send_err",   status |-> 0, body |-> "none", cause |-> c]
Response(st, b) == [kind |-> "resp", status |-> st, body |-> b, cause |-> "none"]

NoSend == [kind |-> "none", status |-> 0, body |-> "none", cause |-> "none"]

\* The results the runs of the whole program are checked with.
SendResults ==
    { ClientErr("tls"), SendErr("connect"),
      Response(200, "ok"), Response(200, "unreadable"), Response(500, "ok") }

\* The results client_fn on its own is checked with.
AllSendResults ==
    {ClientErr("tls")}
    \cup {SendErr(c) : c \in {"connect", "dns", "timeout"}}
    \cup {Response(st, b) : st \in {100, 199, 200, 204, 299, 300, 404, 500},
                            b \in {"ok", "unreadable"}}

\* StatusCode::is_success
IsSuccess(status) == status >= 200 /\ status < 300

\* let _ = resp.read_to_string(&mut content): a failed read leaves the
\* String as it was created.
ReadBody(b) == IF b = "unreadable" THEN "" ELSE b

\* A variant that treats a failed body read as a failed send.
ClientFnBodyStrict(r) ==
    IF r.kind = "resp" /\ IsSuccess(r.status) /\ r.body # "unreadable"
    THEN [line |-> "ok", msg |-> "Success in sending command, body",
          status |-> r.status, detail |-> r.body]
    ELSE [line |-> "HTTP thread error", msg |-> "Failed to send command",
          status |-> 0, detail |-> r.cause]

\* client_fn together with the match that prints its result.
ClientFn(r) ==
    IF r.kind = "client_err"
    THEN [line |-> "HTTP thread error", msg |-> "Error creating HTTP client",
          status |-> 0, detail |-> r.cause]
    ELSE IF r.kind = "send_err"
    THEN [line |-> "HTTP thread error", msg |-> "Failed to send command",
          status |-> 0, detail |-> r.cause]
    ELSE IF IsSuccess(r.status)
    THEN [line |-> "ok", msg |-> "Success in sending command, body",
          status |-> r.status, detail |-> ReadBody(r.body)]
    ELSE [line |-> "HTTP thread error",
          msg |-> "Success in sending command, but returned status code",
          status |-> r.status, detail |-> "none"]

NoOutcome == [line |-> "none", msg |-> "none", status |-> 0, detail |-> "none"]

\* A variant that reports a failure once inside client_fn and once more
\* in the match on its result.
PrintedLinesTwiceOnError(r) ==
    IF ClientFn(r).line = "ok" THEN <<ClientFn(r)>>
    ELSE <<ClientFn(r), ClientFn(r)>>

\* match client_fn() { Ok(msg) => println!, Err(e) => println! }: the
\* lines one HTTP thread prints (lines 134-137).
PrintedLines(r) == <<ClientFn(r)>>

\* A variant in which the worker joins the threads it spawned.
WorkerAwaitsAll(d) == \E t \in DOMAIN d : d[t] = "running"

\* The JoinHandle of thread::spawn at line 105 is dropped: the worker
\* never waits for an HTTP thread.
WorkerAwaits(d) == FALSE

\* A variant in which the controller waits for the HTTP threads too.
CtrlAwaitsAll(d) == \E t \in DOMAIN d : d[t] = "running"

\* run joins the worker only (line 179); no HTTP thread is joined.
CtrlAwaits(d) == FALSE

\* ---------------------------------------------------------------------
\* Worker: pure pieces of the closure.
\* ---------------------------------------------------------------------

\* A variant that lets an elapsed timeout take precedence over the flag.
IsInterruptedTimeoutFirst(flag, timedOut) == flag /\ ~timedOut

\* A variant that never reports the interruption.
IsInterruptedNever(flag, timedOut) == FALSE

\* let (guard, _) = ...; let is_interrupted = *guard;
\* The WaitTimeoutResult is discarded: only the flag decides.
IsInterrupted(flag, timedOut) == flag

\* A variant in which reading the flag consumes it (auto-reset event).
FlagAfterReadReset(flag) == FALSE

\* The guard is only read at line 89: the flag keeps its value.
FlagAfterRead(flag) == flag

\* A variant that ends the loop after a tick (true in the Ok(false) arm).
ClosureReturnAfterTick(r) == r # "err"

\* A variant in which the loop never ends.
ClosureReturnNever(r) == FALSE

\* The bool the closure hands to any(): true ends the loop.
ClosureReturn(r) == IF r = "false" THEN FALSE
                    ELSE IF r = "err" THEN FALSE
                    ELSE TRUE

\* A variant that also spawns on the interrupted arm.
SpawnsAlways(r) == r \in {"true", "false"}

\* Only the Ok(false) arm spawns an HTTP client thread.
Spawns(r) == r = "false"

\* A variant of join that does not wait for the child.
JoinReturnsAlways(w) == TRUE

\* child.join() returns once the worker thread has ended.
JoinReturns(w) == w \in {"done", "panicked"}

\* The worker is between two timed waits and will begin another one.
BetweenWaits(w, r) == \/ w \in {"lock", "locked"}
                      \/ w = "match" /\ ~ClosureReturn(r)

\* A variant that negates the flag.
StopValueToggle(flag) == ~flag

\* *guard = true (line 169)
StopValue(flag) == TRUE

\* The scheduler loop's abstract state.
LoopState(w) == IF w = "done" THEN "STOPPED"
                ELSE IF w = "panicked" THEN "ABORTED"
                ELSE "RUNNING"

\* ---------------------------------------------------------------------
Init ==
    /\ stopped = FALSE
    /\ poisoned = FALSE
    /\ holder = "none"
    /\ wpc = "lock"
    /\ cause = "none"
    /\ res = "none"
    /\ cpc = "read"
    /\ exitCode = -1
    /\ nSpawn = 0
    /\ dstate = [t \in Ticks |-> "none"]
    /\ outcome = [t \in Ticks |-> NoOutcome]
    /\ tickCause = [t \in Ticks |-> "none"]
    /\ tickAfterStop = [t \in Ticks |-> FALSE]
    /\ tickFlag = [t \in Ticks |-> FALSE]
    /\ flagAtReturn = FALSE
    /\ retCause = "none"
    /\ beganStopped = FALSE
    /\ lostNotify = FALSE
    /\ sawStop = FALSE
    /\ waitsAfterStop = 0
    /\ coordFailed = FALSE
    /\ notified = FALSE
    /\ joinErr = FALSE
    /\ errKind = "none"
    /\ config \in Configs
    /\ payload = [t \in Ticks |-> {}]
    /\ sendRes = [t \in Ticks |-> NoSend]
    /\ stopCalls = 0
    /\ nFalse = 0
    /\ printed = [t \in Ticks |-> 0]
    /\ firedBeforeStop = FALSE

\* ---------------------------------------------------------------------
\* Worker actions
\* ---------------------------------------------------------------------

\* m.lock() returns Ok(guard)  (line 79-80)
WorkerLock ==
    /\ Alive /\ wpc = "lock" /\ holder = "none" /\ ~poisoned
    /\ ~WorkerAwaits(dstate)
    /\ holder' = "worker"
    /\ wpc' = "locked"
    /\ UNCHANGED <<stopped, poisoned, cause, res, cpc, exitCode, nSpawn,
                   dstate, outcome, hist>>
    /\ UNCHANGED ext

\* cv.wait_timeout(guard, interval): atomically unlock and block (line 84)
WorkerWaitBegin ==
    /\ Alive /\ wpc = "locked"
    /\ holder' = "none"
    /\ wpc' = "waiting"
    /\ cause' = "none"
    /\ beganStopped' = (beganStopped \/ stopped)
    /\ UNCHANGED <<stopped, poisoned, res, cpc, exitCode, nSpawn, dstate,
                   outcome, tickCause, tickAfterStop, tickFlag, flagAtReturn, retCause,
                   lostNotify, sawStop, waitsAfterStop, coordFailed,
                   notified, joinErr, errKind>>
    /\ UNCHANGED ext

\* The interval elapses while the worker is blocked.
\* (Once MaxTicks ticks were spawned only a stop lets the wait end.)
WaitTimeout ==
    /\ Alive /\ wpc = "waiting"
    /\ nSpawn < MaxTicks \/ stopped
    /\ wpc' = "woken"
    /\ cause' = "timeout"
    /\ firedBeforeStop' = (firedBeforeStop \/ ~stopped)
    /\ UNCHANGED <<stopped, poisoned, holder, res, cpc, exitCode, nSpawn,
                   dstate, outcome, hist>>
    /\ UNCHANGED <<config, payload, sendRes, stopCalls, nFalse, printed>>

\* A spurious wake-up of the condition variable.
WaitSpurious ==
    /\ Alive /\ wpc = "waiting"
    /\ nSpawn < MaxTicks \/ stopped
    /\ wpc' = "woken"
    /\ cause' = "spurious"
    /\ UNCHANGED <<stopped, poisoned, holder, res, cpc, exitCode, nSpawn,
                   dstate, outcome, hist>>
    /\ UNCHANGED ext

\* wait_timeout re-acquires the mutex and returns Ok (line 85)
WorkerReacquire ==
    /\ Alive /\ wpc = "woken" /\ holder = "none" /\ ~poisoned
    /\ holder' = "worker"
    /\ wpc' = "holding"
    /\ UNCHANGED <<stopped, poisoned, cause, res, cpc, exitCode, nSpawn,
                   dstate, outcome, hist>>
    /\ UNCHANGED ext

\* let is_interrupted = *guard; println; Ok(is_interrupted); guard dropped
\* (lines 89-93)
WorkerRead ==
    /\ Alive /\ wpc = "holding"
    /\ res' = IF IsInterrupted(stopped, cause = "timeout") THEN "true" ELSE "false"
    /\ stopped' = FlagAfterRead(stopped)
    /\ holder' = "none"
    /\ wpc' = "match"
    /\ flagAtReturn' = stopped
    /\ retCause' = cause
    /\ sawStop' = (sawStop \/ IsInterrupted(stopped, cause = "timeout"))
    /\ waitsAfterStop' = waitsAfterStop + (IF stopped THEN 1 ELSE 0)
    /\ nFalse' = nFalse + (IF IsInterrupted(stopped, cause = "timeout") THEN 0 ELSE 1)
    /\ UNCHANGED <<poisoned, cause, cpc, exitCode, nSpawn, dstate, outcome,
                   tickCause, tickAfterStop, tickFlag, beganStopped, lostNotify,
                   coordFailed, notified, joinErr, errKind>>
    /\ UNCHANGED <<config, payload, sendRes, stopCalls, printed, firedBeforeStop>>

\* match match_fn() { Ok(false) => spawn, false; Err => false; _ => true }
\* (lines 95-150)
WorkerMatch ==
    /\ Alive /\ wpc = "match"
    /\ Spawns(res) => nSpawn < MaxTicks
    /\ IF Spawns(res)
       THEN /\ nSpawn' = nSpawn + 1
            /\ dstate' = [dstate EXCEPT ![nSpawn + 1] = "running"]
            /\ tickCause' = [tickCause EXCEPT ![nSpawn + 1] = retCause]
            /\ tickAfterStop' = [tickAfterStop EXCEPT ![nSpawn + 1] = stopped]
            /\ tickFlag' = [tickFlag EXCEPT ![nSpawn + 1] = flagAtReturn]
            /\ payload' = [payload EXCEPT ![nSpawn + 1] = TickPayload(config)]
       ELSE UNCHANGED <<nSpawn, dstate, tickCause, tickAfterStop, tickFlag,
                        payload>>
    /\ wpc' = IF ClosureReturn(res) THEN "done" ELSE "lock"
    /\ res' = "none"
    /\ UNCHANGED <<stopped, poisoned, holder, cause, cpc, exitCode, outcome,
                   flagAtReturn, retCause, beganStopped, lostNotify, sawStop,
                   waitsAfterStop, coordFailed, notified, joinErr, errKind>>
    /\ UNCHANGED <<config, sendRes, stopCalls, nFalse, printed, firedBeforeStop>>

\* ---------------------------------------------------------------------
\* HTTP client thread of tick t (lines 105-138)
\* ---------------------------------------------------------------------
Dispatch(t, results) ==
    /\ Alive /\ dstate[t] = "running"
    /\ \E r \in results :
          /\ outcome' = [outcome EXCEPT ![t] = PrintedLines(r)[1]]
          /\ printed' = [printed EXCEPT ![t] = @ + Len(PrintedLines(r))]
          /\ sendRes' = [sendRes EXCEPT ![t] = r]
    /\ dstate' = [dstate EXCEPT ![t] = "done"]
    /\ UNCHANGED <<stopped, poisoned, holder, wpc, cause, res, cpc, exitCode,
                   nSpawn, hist>>
    /\ UNCHANGED <<config, payload, stopCalls, nFalse, firedBeforeStop>>

\* The HTTP thread of tick t in a run of the whole program.
DispatchFinish(t) == Dispatch(t, SendResults)

\* ---------------------------------------------------------------------
\* Controller actions
\* ---------------------------------------------------------------------

\* io::stdin().read_line(&mut buf) returns Ok (line 159)
CtrlReadOk ==
    /\ cpc = "read"
    /\ cpc' = "lock"
    /\ stopCalls' = 1
    /\ UNCHANGED <<stopped, poisoned, holder, wpc, cause, res, exitCode,
                   nSpawn, dstate, outcome, hist>>
    /\ UNCHANGED <<config, payload, sendRes, nFalse, printed, firedBeforeStop>>

\* read_line returns Err: chain_err(...)? returns from run (lines 159-160)
CtrlReadErr ==
    /\ cpc = "read"
    /\ cpc' = "ret_err"
    /\ errKind' = "read"
    /\ UNCHANGED <<stopped, poisoned, holder, wpc, cause, res, exitCode,
                   nSpawn, dstate, outcome, tickCause, tickAfterStop, tickFlag,
                   flagAtReturn, retCause, beganStopped, lostNotify, sawStop,
                   waitsAfterStop, coordFailed, notified, joinErr>>
    /\ UNCHANGED ext

\* m.lock() returns Ok(mut guard) (lines 167-168)
CtrlLock ==
    /\ cpc = "lock" /\ holder = "none" /\ ~poisoned
    /\ holder' = "ctrl"
    /\ cpc' = "set"
    /\ UNCHANGED <<stopped, poisoned, wpc, cause, res, exitCode, nSpawn,
                   dstate, outcome, hist>>
    /\ UNCHANGED ext

\* *guard = true (line 169)
CtrlSet ==
    /\ cpc = "set"
    /\ stopped' = StopValue(stopped)
    /\ cpc' = "unlock"
    /\ UNCHANGED <<poisoned, holder, wpc, cause, res, exitCode, nSpawn,
                   dstate, outcome, hist>>
    /\ UNCHANGED ext

\* the guard goes out of scope (lines 170-174)
CtrlUnlock ==
    /\ cpc = "unlock"
    /\ holder' = "none"
    /\ cpc' = "notify"
    /\ UNCHANGED <<stopped, poisoned, wpc, cause, res, exitCode, nSpawn,
                   dstate, outcome, hist>>
    /\ UNCHANGED ext

\* cv.notify_one() (line 176): wakes the worker if it is blocked in
\* wait_timeout, and is lost otherwise.
CtrlNotify ==
    /\ cpc = "notify"
    /\ cpc' = "join"
    /\ notified' = TRUE
    /\ IF wpc = "waiting"
       THEN /\ wpc' = "woken"
            /\ cause' = "notify"
            /\ UNCHANGED lostNotify
       ELSE /\ lostNotify' = (lostNotify \/ BetweenWaits(wpc, res))
            /\ UNCHANGED <<wpc, cause>>
    /\ UNCHANGED <<stopped, poisoned, holder, res, exitCode, nSpawn, dstate,
                   outcome, tickCause, tickAfterStop, tickFlag, flagAtReturn, retCause,
                   beganStopped, sawStop, waitsAfterStop, coordFailed,
                   joinErr, errKind>>
    /\ UNCHANGED ext

\* child.join() (lines 179-181), then Ok(()) (line 183)
CtrlJoin ==
    /\ cpc = "join"
    /\ JoinReturns(wpc)
    /\ ~CtrlAwaits(dstate)
    /\ joinErr' = (wpc = "panicked")
    /\ cpc' = "ret_ok"
    /\ UNCHANGED <<stopped, poisoned, holder, wpc, cause, res, exitCode,
                   nSpawn, dstate, outcome, tickCause, tickAfterStop, tickFlag,
                   flagAtReturn, retCause, beganStopped, lostNotify, sawStop,
                   waitsAfterStop, coordFailed, notified, errKind>>
    /\ UNCHANGED ext

\* A variant that always reports success.
ExitStatusZero(c) == 0

\* match run() { Ok(_) => process::exit(0), Err(_) => process::exit(1) }
ExitStatus(c) == IF c = "ret_ok" THEN 0 ELSE 1

\* main: process::exit(0) on Ok, process::exit(1) on Err (lines 186-206)
MainExit ==
    /\ cpc \in {"ret_ok", "ret_err"}
    /\ exitCode' = ExitStatus(cpc)
    /\ cpc' = "exited"
    /\ UNCHANGED <<stopped, poisoned, holder, wpc, cause, res, nSpawn,
                   dstate, outcome, hist>>
    /\ UNCHANGED ext

Next ==
    \/ WorkerLock
    \/ WorkerWaitBegin
    \/ WaitTimeout
    \/ WaitSpurious
    \/ WorkerReacquire
    \/ WorkerRead
    \/ WorkerMatch
    \/ \E t \in Ticks : DispatchFinish(t)
    \/ CtrlReadOk
    \/ CtrlReadErr
    \/ CtrlLock
    \/ CtrlSet
    \/ CtrlUnlock
    \/ CtrlNotify
    \/ CtrlJoin
    \/ MainExit

Spec == Init /\ [][Next]_vars

\* ---------------------------------------------------------------------
\* Failure paths: a poisoned Mutex and a panicking worker.
\* ---------------------------------------------------------------------

\* A thread panicked while it held the Mutex: the Mutex is poisoned from
\* then on (the situation the Err arms of lines 81, 86 and 172 handle).
PoisonFault ==
    /\ Alive /\ holder = "none" /\ ~poisoned
    /\ poisoned' = TRUE
    /\ UNCHANGED <<stopped, holder, wpc, cause, res, cpc, exitCode, nSpawn,
                   dstate, outcome, hist>>
    /\ UNCHANGED ext

\* m.lock() returns Err: bail!("Unable to get mutex lock in thread")
\* (lines 79-82); the guard inside the error is dropped at once.
WorkerLockErr ==
    /\ Alive /\ wpc = "lock" /\ holder = "none" /\ poisoned
    /\ res' = "err"
    /\ wpc' = "match"
    /\ coordFailed' = TRUE
    /\ UNCHANGED <<stopped, poisoned, holder, cause, cpc, exitCode, nSpawn,
                   dstate, outcome, tickCause, tickAfterStop, tickFlag,
                   flagAtReturn, retCause, beganStopped, lostNotify, sawStop,
                   waitsAfterStop, notified, joinErr, errKind>>
    /\ UNCHANGED ext

\* cv.wait_timeout returns Err: bail!("Unable to wait for condvar timeout")
\* (lines 84-87)
WorkerWaitErr ==
    /\ Alive /\ wpc = "woken" /\ holder = "none" /\ poisoned
    /\ res' = "err"
    /\ wpc' = "match"
    /\ coordFailed' = TRUE
    /\ UNCHANGED <<stopped, poisoned, holder, cause, cpc, exitCode, nSpawn,
                   dstate, outcome, tickCause, tickAfterStop, tickFlag,
                   flagAtReturn, retCause, beganStopped, lostNotify, sawStop,
                   waitsAfterStop, notified, joinErr, errKind>>
    /\ UNCHANGED ext

\* println! at line 90 panics (stdout unusable) while the guard is held:
\* the worker thread ends and the Mutex is poisoned.
WorkerPanicHolding ==
    /\ Alive /\ wpc = "holding"
    /\ wpc' = "panicked"
    /\ poisoned' = TRUE
    /\ holder' = "none"
    /\ UNCHANGED <<stopped, cause, res, cpc, exitCode, nSpawn, dstate,
                   outcome, hist>>
    /\ UNCHANGED ext

\* thread::spawn at line 105 panics (the OS refuses a new thread): the
\* worker thread ends without holding the Mutex.
WorkerPanicSpawn ==
    /\ Alive /\ wpc = "match" /\ Spawns(res)
    /\ wpc' = "panicked"
    /\ UNCHANGED <<stopped, poisoned, holder, cause, res, cpc, exitCode,
                   nSpawn, dstate, outcome, hist>>
    /\ UNCHANGED ext

\* m.lock() returns Err in the controller: bail! (line 172)
CtrlLockErr ==
    /\ cpc = "lock" /\ holder = "none" /\ poisoned
    /\ cpc' = "ret_err"
    /\ errKind' = "lock"
    /\ UNCHANGED <<stopped, poisoned, holder, wpc, cause, res, exitCode,
                   nSpawn, dstate, outcome, tickCause, tickAfterStop,
                   tickFlag, flagAtReturn, retCause, beganStopped,
                   lostNotify, sawStop, waitsAfterStop, coordFailed,
                   notified, joinErr>>
    /\ UNCHANGED ext

NextF ==
    \/ Next
    \/ PoisonFault
    \/ WorkerLockErr
    \/ WorkerWaitErr
    \/ WorkerPanicHolding
    \/ WorkerPanicSpawn
    \/ CtrlLockErr

\* The program together with its failure paths.
SpecF == Init /\ [][NextF]_vars

\* ---------------------------------------------------------------------
\* The stop sequence performed more than once (lines 163-176 run again
\* before the join).
\* ---------------------------------------------------------------------
MaxStopCalls == 2

CtrlStopAgain ==
    /\ cpc = "join" /\ stopCalls < MaxStopCalls
    /\ cpc' = "lock"
    /\ stopCalls' = stopCalls + 1
    /\ UNCHANGED <<stopped, poisoned, holder, wpc, cause, res, exitCode,
                   nSpawn, dstate, outcome, hist>>
    /\ UNCHANGED <<config, payload, sendRes, nFalse, printed, firedBeforeStop>>

NextTwice ==
    \/ Next
    \/ CtrlStopAgain

SpecTwice == Init /\ [][NextTwice]_vars

\* ---------------------------------------------------------------------
\* client_fn on its own: every tick's HTTP thread is running (the worker
\* has spawned MaxTicks threads after MaxTicks elapsed intervals) and each
\* thread may meet any result of AllSendResults.
\* ---------------------------------------------------------------------
InitC ==
    /\ stopped = FALSE
    /\ poisoned = FALSE
    /\ holder = "none"
    /\ wpc = "lock"
    /\ cause = "timeout"
    /\ res = "none"
    /\ cpc = "read"
    /\ exitCode = -1
    /\ nSpawn = MaxTicks
    /\ dstate = [t \in Ticks |-> "running"]
    /\ outcome = [t \in Ticks |-> NoOutcome]
    /\ tickCause = [t \in Ticks |-> "timeout"]
    /\ tickAfterStop = [t \in Ticks |-> FALSE]
    /\ tickFlag = [t \in Ticks |-> FALSE]
    /\ flagAtReturn = FALSE
    /\ retCause = "timeout"
    /\ beganStopped = FALSE
    /\ lostNotify = FALSE
    /\ sawStop = FALSE
    /\ waitsAfterStop = 0
    /\ coordFailed = FALSE
    /\ notified = FALSE
    /\ joinErr = FALSE
    /\ errKind = "none"
    /\ config \in Configs
    /\ payload = [t \in Ticks |-> TickPayload(config)]
    /\ sendRes = [t \in Ticks |-> NoSend]
    /\ stopCalls = 0
    /\ nFalse = MaxTicks
    /\ printed = [t \in Ticks |-> 0]
    /\ firedBeforeStop = TRUE

\* The HTTP thread of tick t, with any result of a send.
DispatchAny(t) == Dispatch(t, AllSendResults)

NextC == \E t \in Ticks : DispatchAny(t)

SpecC == InitC /\ [][NextC]_vars

\* ---------------------------------------------------------------------
\* Properties
\* ---------------------------------------------------------------------

\* C1: once match_fn has returned Ok(true) the loop exits: the worker only
\* goes on to "done" and no further HTTP client thread is spawned.
C1_NoPostStopTicks ==
    [][sawStop => (nSpawn' = nSpawn /\ dstate' \in {dstate} \cup
                      {[dstate EXCEPT ![t] = "done"] : t \in Ticks}
                   /\ wpc' \in {"match", "done"})]_vars

C1_Witness == sawStop /\ wpc = "done" /\ nSpawn >= 1

\* C2: after a coordination failure (match_fn returned Err) the loop is
\* in, or on its way to, the terminal STOPPED state and never starts
\* another iteration.
C2_FailSafe ==
    coordFailed => (wpc = "match" /\ res = "err") \/ LoopState(wpc) = "STOPPED"

\* C3: the worker never begins a timed wait while the flag is already
\* true, and notify_one never falls between two waits of the worker.
C3_BoundedLatency == ~beganStopped /\ ~lostNotify

\* C4: when the wait ended by timeout and the flag read under the lock is
\* true, match_fn returns Ok(true), the tick is not dispatched and the
\* loop terminates.
C4_StopWins ==
    [][ /\ (wpc = "holding" /\ cause = "timeout" /\ stopped /\ wpc' # wpc)
           => (wpc' = "match" /\ res' = "true" /\ nSpawn' = nSpawn)
        /\ (wpc = "match" /\ retCause = "timeout" /\ flagAtReturn /\ wpc' # wpc)
           => (wpc' = "done" /\ nSpawn' = nSpawn) ]_vars

C4_Witness == wpc = "done" /\ retCause = "timeout" /\ flagAtReturn /\ nSpawn >= 1

\* C5: every tick that was dispatched follows a wait that ended by
\* timeout; an early (spurious or explicit) wake never leads to a Dispatch.
C5_OnlyTimeoutTicks ==
    \A t \in Ticks : dstate[t] # "none" => tickCause[t] = "timeout"

\* C6: every wait that returns after the flag was set yields true, and the
\* worker never completes two waits after the flag was set.
C6_StopNeverMissed ==
    /\ waitsAfterStop <= 1
    /\ (wpc = "match" /\ flagAtReturn) => res = "true"

C6_Witness == waitsAfterStop = 1 /\ wpc = "done" /\ beganStopped

\* C7: at most one tick is dispatched after the flag was set, and the wait
\* of such a tick returned (with the flag still false) before the flag was
\* set; no wait that returned with the flag set leads to a Dispatch.
C7_AtMostOneInFlightTick ==
    /\ Cardinality({t \in Ticks : tickAfterStop[t]}) <= 1
    /\ \A t \in Ticks : dstate[t] # "none" => ~tickFlag[t]

C7_Witness == \E t \in Ticks : tickAfterStop[t] /\ ~tickFlag[t] /\ wpc = "done"

\* C8: the flag starts false, only the controller's "*guard = true" under
\* the lock changes it, and once true it stays true.
C8_FlagMonotone ==
    /\ ~stopped
    /\ [][ /\ stopped => stopped'
           /\ stopped' # stopped =>
                (cpc = "set" /\ cpc' = "unlock" /\ holder = "ctrl") ]_vars

C8_Witness == stopped /\ waitsAfterStop = 1 /\ wpc = "done" /\ nSpawn >= 1

\* C9: when read_line fails, the controller has set the flag and called
\* notify_one before run returns the error.
C9_ReadFailureStillStops ==
    (cpc = "ret_err" /\ errKind = "read") => (stopped /\ notified)

\* C10: the controller sets the flag while it holds the lock, has released
\* the lock before notify_one, has notified before join, and returns Ok
\* (and exits 0) only when the scheduler loop is no longer RUNNING.
C10_OrderedHandshake ==
    /\ cpc = "set" => holder = "ctrl"
    /\ cpc = "unlock" => (holder = "ctrl" /\ stopped)
    /\ cpc \in {"notify", "join", "ret_ok"} => (stopped /\ holder # "ctrl")
    /\ cpc \in {"join", "ret_ok"} => notified
    /\ (cpc = "ret_ok" \/ exitCode = 0) =>
           (stopped /\ notified /\ LoopState(wpc) # "RUNNING")

C10_Witness == cpc = "ret_ok" /\ wpc = "done" /\ nSpawn >= 1 /\ lostNotify

\* ---------------------------------------------------------------------
\* Scheduling: every thread that can take a step eventually takes it, the
\* interval of a timed wait eventually elapses, and the controller, once it
\* has read the stop trigger, runs on.  Nothing is assumed of the HTTP
\* client threads (a send may never return), of spurious wake-ups, or of
\* the arrival of the stop trigger.
\* ---------------------------------------------------------------------
Fairness ==
    /\ WF_vars(WorkerLock)
    /\ WF_vars(WorkerWaitBegin)
    /\ WF_vars(WaitTimeout)
    /\ WF_vars(WorkerReacquire)
    /\ WF_vars(WorkerRead)
    /\ WF_vars(WorkerMatch)
    /\ WF_vars(CtrlLock)
    /\ WF_vars(CtrlSet)
    /\ WF_vars(CtrlUnlock)
    /\ WF_vars(CtrlNotify)
    /\ WF_vars(CtrlJoin)
    /\ WF_vars(MainExit)

FairSpec == Spec /\ Fairness

\* C11: once the stop trigger has been read, the worker eventually reaches
\* STOPPED and child.join() eventually returns, whether or not the HTTP
\* client threads ever finish.
C11_ShutdownTerminates ==
    (cpc = "lock") ~> (LoopState(wpc) = "STOPPED" /\ cpc = "ret_ok")

C11_Witness ==
    /\ cpc = "ret_ok" /\ wpc = "done" /\ ~joinErr
    /\ nSpawn = MaxTicks
    /\ \A t \in Ticks : dstate[t] = "running"

\* C12: whatever an HTTP thread's send results in, the step that ends the
\* thread changes nothing the worker reads or writes; the loop leaves
\* RUNNING for STOPPED only from match_fn's Ok(true), and is never STOPPED
\* while the flag is false.
C12_DispatchFailuresLocal ==
    /\ [](~stopped => LoopState(wpc) # "STOPPED")
    /\ [][ /\ (\E t \in Ticks : dstate[t] = "running" /\ dstate'[t] = "done")
              => <<wpc, res, cause, holder, stopped, poisoned, nSpawn>>'
                   = <<wpc, res, cause, holder, stopped, poisoned, nSpawn>>
           /\ (wpc # "done" /\ wpc' = "done") => res = "true" ]_vars

C12_Witness ==
    /\ dstate[1] = "done" /\ outcome[1].line = "HTTP thread error"
    /\ nSpawn = 2 /\ wpc = "waiting" /\ ~stopped /\ ~poisoned

\* C13: every Ok(false) of match_fn spawns exactly one HTTP thread, a
\* thread exists only for a tick, and a thread prints exactly one outcome
\* line when it finishes and none before.
C13_OnePerTick ==
    /\ nSpawn = nFalse - (IF wpc = "match" /\ res = "false" THEN 1 ELSE 0)
    /\ \A t \in Ticks : (dstate[t] # "none") <=> (t <= nSpawn)
    /\ \A t \in Ticks : printed[t] = (IF dstate[t] = "done" THEN 1 ELSE 0)
    /\ \A t \in Ticks : (outcome[t] # NoOutcome) <=> (dstate[t] = "done")

C13_Witness ==
    /\ nFalse = 2 /\ nSpawn = 2
    /\ printed[1] = 1 /\ printed[2] = 1
    /\ outcome[1].line = "ok" /\ outcome[2].line = "HTTP thread error"

\* C14: the worker holds no lock when it spawns an HTTP thread, and
\* whenever it is about to lock for its next wait and the Mutex is free it
\* can do so, whatever the HTTP threads are doing.
C14_TickIndependence ==
    /\ wpc = "match" => holder # "worker"
    /\ (Alive /\ wpc = "lock" /\ holder = "none") => ENABLED WorkerLock

C14_Witness ==
    /\ Cardinality({t \in Ticks : dstate[t] = "running"}) >= 2
    /\ wpc = "waiting" /\ ~stopped

\* C15: when the flag is set before any interval has elapsed, no HTTP
\* thread has been or will be spawned.
C15_StopBeforeFirstTick ==
    (stopped /\ ~firedBeforeStop) => nSpawn = 0

\* C16: a second run of the stop sequence is a no-op for the worker: none
\* of its steps fails, changes the flag, the dispatched ticks or match_fn's
\* result, and the only thing it can do to the worker is to end a wait
\* (begun with the flag already true) before its timeout; the guarantees
\* of a single stop (at most one wait after the set, at most one in-flight
\* tick, join only after the loop ended) hold unchanged.
C16_IdempotentStop ==
    /\ [](/\ waitsAfterStop <= 1
          /\ Cardinality({t \in Ticks : tickAfterStop[t]}) <= 1
          /\ (wpc = "match" /\ flagAtReturn) => res = "true"
          /\ cpc = "ret_ok" => wpc = "done"
          /\ errKind = "lock" => FALSE)
    /\ [][ (stopCalls >= 2 /\ cpc \in {"lock", "set", "unlock", "notify"}
              /\ cpc' # cpc)
           => /\ stopped /\ stopped'
              /\ <<nSpawn, dstate, res, sawStop>>' = <<nSpawn, dstate, res, sawStop>>
              /\ wpc' = wpc \/ (wpc = "waiting" /\ wpc' = "woken") ]_vars

C16_Witness ==
    /\ stopCalls = 2 /\ cpc = "ret_ok" /\ wpc = "done"
    /\ beganStopped /\ retCause = "notify" /\ nSpawn >= 1

\* C17: for every result of send: a 2xx response is reported as success
\* with the body that could be read (empty when the read failed), any other
\* response as the non-2xx outcome with its status code, a transport error
\* as the transport failure with its cause; each result falls in exactly
\* one of the three.
IsSuccessOutcome(o)   == o.line = "ok" /\ o.msg = "Success in sending command, body"
IsNon2xxOutcome(o)    == o.line = "HTTP thread error"
                         /\ o.msg = "Success in sending command, but returned status code"
IsTransportOutcome(o) == o.line = "HTTP thread error" /\ o.msg = "Failed to send command"

C17_OutcomeClassification ==
    \A t \in Ticks :
      (dstate[t] = "done" /\ sendRes[t].kind \in {"resp", "send_err"}) =>
        LET r == sendRes[t]
            o == outcome[t]
        IN /\ (r.kind = "resp" /\ r.status \in 200..299) =>
                 (IsSuccessOutcome(o) /\ o.detail = (IF r.body = "unreadable" THEN "" ELSE r.body))
           /\ (r.kind = "resp" /\ r.status \notin 200..299) =>
                 (IsNon2xxOutcome(o) /\ o.status = r.status)
           /\ r.kind = "send_err" => (IsTransportOutcome(o) /\ o.detail = r.cause)
           /\ Cardinality({k \in {"s", "n", "t"} :
                  \/ k = "s" /\ IsSuccessOutcome(o)
                  \/ k = "n" /\ IsNon2xxOutcome(o)
                  \/ k = "t" /\ IsTransportOutcome(o)}) = 1

C17_Witness ==
    /\ dstate[1] = "done" /\ sendRes[1] = Response(299, "unreadable")
    /\ IsSuccessOutcome(outcome[1]) /\ outcome[1].detail = ""
    /\ dstate[2] = "done" /\ sendRes[2] = Response(300, "ok")
    /\ IsNon2xxOutcome(outcome[2])

\* C18: the body of every tick is the JSON object with exactly the members
\* id = name, cmdIdRe = the pattern text, cmd = command text, and the
\* configuration never changes.
ExpectedPayload(c) ==
    { << <<"i", "d">>, c.name >>,
      << <<"c", "m", "d", "I", "d", "R", "e">>, c.regex_pattern.original >>,
      << <<"c", "m", "d">>, c.cmd >> }

C18_Payload ==
    /\ [](\A t \in Ticks : dstate[t] # "none" =>
              (payload[t] = ExpectedPayload(config) /\ Cardinality(payload[t]) = 3))
    /\ [][config' = config]_vars

C18_Witness ==
    /\ nSpawn = 2
    /\ payload[1] = { << <<"i", "d">>, "caller" >>,
                      << <<"c", "m", "d", "I", "d", "R", "e">>, ".+" >>,
                      << <<"c", "m", "d">>, "echo hi" >> }
    /\ payload[2] = payload[1]

\* C19: the process exits 0 exactly when run returned Ok, which is after
\* the stop trigger was read, the stop was signalled and the worker thread
\* was joined (ended or panicked); it exits 1 exactly when run returned the
\* read error or the lock error; it never exits 0 after a coordination
\* failure of either thread.
C19_ExitStatus ==
    /\ exitCode \in {-1, 0, 1}
    /\ (exitCode = -1) <=> Alive
    /\ exitCode = 0 <=> (/\ cpc = "exited" /\ errKind = "none"
                         /\ stopped /\ notified
                         /\ LoopState(wpc) # "RUNNING"
                         /\ joinErr = (wpc = "panicked"))
    /\ exitCode = 1 <=> (cpc = "exited" /\ errKind \in {"read", "lock"})
    /\ (cpc = "exited" /\ (coordFailed \/ errKind # "none")) => exitCode = 1

C19_Witness == exitCode = 0 /\ joinErr /\ wpc = "panicked" /\ nSpawn >= 1

\* C20: no step of the controller (stop sequence, join, exit) changes the
\* state of an HTTP thread, and the join does not wait for HTTP threads:
\* it can return as soon as the worker has ended.
C20_NoCancellation ==
    /\ [][cpc' # cpc => (dstate' = dstate /\ outcome' = outcome /\ printed' = printed)]_vars
    /\ []((cpc = "join" /\ wpc = "done") => ENABLED CtrlJoin)

C20_Witness ==
    /\ cpc = "exited" /\ exitCode = 0
    /\ \E t \in Ticks : dstate[t] = "running"

====
